---- MODULE Spec2Model ----
(***************************************************************************)
(* The JSON post API of src/src/post_service.rs, served by the router of   *)
(* src/src/main.rs, over one relational posts table.                       *)
(*                                                                         *)
(* Every request is handled by its own task.  A task runs its handler as   *)
(* a sequence of store statements; each statement is one atomic step of    *)
(* the store, and the statements of different tasks interleave freely.     *)
(* The store is the SQLite backend the repository's tests connect to       *)
(* ("sqlite::memory:"), which has no RETURNING clause: ActiveModel::save   *)
(* is an INSERT or UPDATE statement followed by a SELECT by primary key.   *)
(*                                                                         *)
(* The router mounts the JSON handlers only (api_list_posts,               *)
(* api_create_post, api_update_post, api_delete_post).  The HTML handlers  *)
(* of post_service.rs that write the table have their own actions:         *)
(* create_post saves the title and the text of the form and leaves new_col *)
(* to the column default; update_post and delete_post run the statements   *)
(* of their JSON counterparts; all three answer with post_response, a      *)
(* redirect with the flash data in a cookie, instead of the JSON body.     *)
(* The HTML handlers that only read (list_posts, new_post, edit_post)      *)
(* render templates and have no action.                                    *)
(* Definitions named after a handler or store operation with a suffix      *)
(* (num_pages_floor, update_row_upsert, ...) are faulty variants of it,    *)
(* used to show that a property depends on the operation.                  *)
(***************************************************************************)
EXTENDS Integers, Sequences, FiniteSets, TLC

(* ------------------------------ bounds -------------------------------- *)

\* Largest id the auto-increment primary key hands out.
MaxId == 2

\* Largest explicit ?page= value a request carries.
MaxPage == 2

\* Largest explicit ?posts_per_page= value a request carries.
MaxPerPage == 1

(* --------------------------- program constants ------------------------ *)

\* params.page.unwrap_or(1)
DefaultPage == 1

\* params.posts_per_page.unwrap_or(5)
DefaultPostsPerPage == 5

\* ColumnDef::new(Posts::NewCol).integer().not_null().default(100)
DefaultNewCol == 100

(* ------------------------------ inputs -------------------------------- *)

\* Two connections, each with one request in flight at a time: the requests
\* of the two run concurrently.
Tasks == {"a", "b"}

\* The Authorization header the requests of a connection carry: the first
\* connection sends none, the second sends a bearer token.
Authorization(t) == IF t = "a" THEN "absent" ELSE "bearer"

\* Ids a PATCH or DELETE path can name: every id the table can hold, and one
\* id the table never holds.
PathIds == 1..(MaxId + 1)

\* JSON bodies of POST and PATCH, {title, text, new_col}: the record of the
\* repository's test and one that differs from it in every field.
Bodies ==
    {[title |-> "title11", text |-> "text11", new_col |-> 17],
     [title |-> "title12", text |-> "text12", new_col |-> 4]}

\* The form of create_post, {title, text, new_col}: the record of the
\* repository's test.  The form of update_post is drawn from Bodies: the form
\* and the JSON body are both a posts::Model.
Forms == {[title |-> "title11", text |-> "text11", new_col |-> 17]}

\* Option<usize> of the query string: None, or Some(n) with n >= 1 (the
\* pagination contract takes page >= 1 and posts_per_page >= 1).  The first
\* page is requested by leaving ?page= out.
None == << >>
Some(n) == <<n>>
PageParams == {None} \cup {Some(n) : n \in 2..MaxPage}
PerPageParams == {None} \cup {Some(n) : n \in 1..MaxPerPage}

NoParams == [page |-> None, posts_per_page |-> None]
NoBody == [title |-> "", text |-> "", new_col |-> 0]
NoResponse == [kind |-> "none"]

VARIABLES
    posts,      \* the posts table: id -> [title, text, new_col]
    next_id,    \* the table's auto-increment sequence
    tasks       \* per task: the request it handles, its position, its response

vars == <<posts, next_id, tasks>>

(* --------------------------- pure functions --------------------------- *)

\* Option::unwrap_or.
unwrap_or(opt, default) == IF opt = None THEN default ELSE opt[1]

Min(a, b) == IF a < b THEN a ELSE b

\* The row as the entity Model: the primary key and the columns.
Model(store, id) ==
    [id |-> id, title |-> store[id].title, text |-> store[id].text,
     new_col |-> store[id].new_col]

\* order_by_asc(posts::Column::Id): the ids of the table, ascending.
RECURSIVE order_by_asc(_)
order_by_asc(ids) ==
    IF ids = {} THEN <<>>
    ELSE LET m == CHOOSE x \in ids : \A y \in ids : x <= y
         IN  <<m>> \o order_by_asc(ids \ {m})

\* Paginator::num_pages on the result of SELECT COUNT(*):
\* num_items / page_size + (num_items % page_size > 0) as usize.
num_pages_floor(num_items, page_size) == num_items \div page_size
num_pages_plus_one(num_items, page_size) == (num_items \div page_size) + 1
num_pages(num_items, page_size) ==
    (num_items \div page_size) + (IF num_items % page_size > 0 THEN 1 ELSE 0)

\* Paginator::fetch_page(page): ORDER BY id ASC LIMIT page_size
\* OFFSET page_size * page.
page_rows(store, offset, page_size) ==
    LET ordered == order_by_asc(DOMAIN store)
        last    == Min(offset + page_size, Len(ordered))
    IN  [i \in 1..(IF last > offset THEN last - offset ELSE 0) |->
            Model(store, ordered[offset + i])]
fetch_page_one_indexed(store, page, page_size) ==
    page_rows(store, page_size * (page + 1), page_size)
fetch_page(store, page, page_size) ==
    page_rows(store, page_size * page, page_size)

\* INSERT INTO posts (title, text, new_col) VALUES (?, ?, ?): the row gets the
\* next value of the auto-increment sequence as its id.
insert_row_default_new_col(store, id, body) ==
    [j \in DOMAIN store \cup {id} |->
        IF j = id THEN [body EXCEPT !.new_col = 100] ELSE store[j]]
insert_row(store, id, body) ==
    [j \in DOMAIN store \cup {id} |-> IF j = id THEN body ELSE store[j]]

\* INSERT INTO posts (title, text) VALUES (?, ?) of create_post: new_col is
\* NotSet and the row gets the column default, whatever the form carries.
insert_form_row(store, id, form) ==
    [j \in DOMAIN store \cup {id} |->
        IF j = id
        THEN [title |-> form.title, text |-> form.text, new_col |-> DefaultNewCol]
        ELSE store[j]]

\* UPDATE posts SET title = ?, text = ?, new_col = ? WHERE id = ?.
update_row_upsert(store, id, body) ==
    [j \in DOMAIN store \cup {id} |-> IF j = id THEN body ELSE store[j]]
update_row_without_new_col(store, id, body) ==
    [j \in DOMAIN store |->
        IF j = id THEN [body EXCEPT !.new_col = store[j].new_col] ELSE store[j]]
update_row_without_title(store, id, body) ==
    [j \in DOMAIN store |->
        IF j = id THEN [body EXCEPT !.title = store[j].title] ELSE store[j]]
update_row(store, id, body) ==
    [j \in DOMAIN store |-> IF j = id THEN body ELSE store[j]]

\* DELETE FROM posts WHERE id = ?.
delete_row_many(store, id) ==
    [j \in {k \in DOMAIN store : k > id} |-> store[j]]
delete_row(store, id) ==
    [j \in DOMAIN store \ {id} |-> store[j]]

\* rows_affected of an UPDATE or DELETE ... WHERE id = ?.
rows_affected(store, id) == IF id \in DOMAIN store THEN 1 ELSE 0

\* The JSON response of GET /api/.
PaginationPost(rows, page, posts_per_page, pages) ==
    [kind |-> "page", posts |-> rows, page |-> page,
     posts_per_page |-> posts_per_page, num_pages |-> pages]

\* The JSON response of POST, PATCH and DELETE.
FlashData(message) == [kind |-> "success", message |-> message]

\* post_response: 303 See Other to "/" with the data in the flash cookie.
post_response(data) == [kind |-> "see_other", location |-> "/", flash |-> data]

(* ------------------------------ tasks --------------------------------- *)

\* A task that handles no request.
Idle ==
    [kind |-> "idle", pc |-> "idle", params |-> NoParams, id |-> 0,
     body |-> NoBody, num_items |-> 0, num_pages |-> 0, rows |-> 0,
     status |-> "none", response |-> NoResponse, trips |-> 0,
     mutated |-> FALSE, overwritten |-> FALSE]

\* Positions between the two store statements of a list or update request.
Between == {"fetch_page", "update_select"}

\* History of a list or update request: the table was changed by a statement
\* of another task between its two store statements.
Mutated(task) ==
    IF task.pc \in Between THEN [task EXCEPT !.mutated = TRUE] ELSE task

\* History of a create or update request: the row it wrote was written again
\* by the UPDATE statement of another task.
Overwritten(task, id) ==
    IF task.kind \in {"create", "create_form", "update", "update_form"}
        /\ task.id = id
        /\ task.rows = 1
    THEN [task EXCEPT !.overwritten = TRUE] ELSE task

\* The tasks after an INSERT or DELETE statement of task t.
Mutation(t) ==
    [u \in Tasks |-> IF u # t THEN Mutated(tasks[u]) ELSE tasks[u]]

\* The tasks after an UPDATE statement of task t on the row id.
Update(t, id) ==
    [u \in Tasks |->
        IF u # t THEN Mutated(Overwritten(tasks[u], id)) ELSE tasks[u]]

Init ==
    /\ posts = << >>
    /\ next_id = 1
    /\ tasks = [t \in Tasks |-> Idle]

(* ----------------------------- GET /api/ ------------------------------ *)

\* api_list_posts, up to paginator.num_pages(): the request arrives and
\* SELECT COUNT(*) runs.
api_list_posts_num_pages(t) ==
    /\ tasks[t].pc = "idle"
    /\ \E p \in PageParams, pp \in PerPageParams :
        LET posts_per_page == unwrap_or(pp, DefaultPostsPerPage)
            num_items      == Cardinality(DOMAIN posts)
        IN  tasks' = [tasks EXCEPT ![t] =
                [Idle EXCEPT !.kind = "list", !.pc = "fetch_page",
                             !.params = [page |-> p, posts_per_page |-> pp],
                             !.num_items = num_items,
                             !.num_pages = num_pages(num_items, posts_per_page),
                             !.trips = 1]]
    /\ UNCHANGED <<posts, next_id>>

\* api_list_posts, paginator.fetch_page(page - 1) and the response.
api_list_posts_fetch_page(t) ==
    /\ tasks[t].pc = "fetch_page"
    /\ LET page           == unwrap_or(tasks[t].params.page, DefaultPage)
           posts_per_page == unwrap_or(tasks[t].params.posts_per_page,
                                       DefaultPostsPerPage)
           rows           == fetch_page(posts, page - 1, posts_per_page)
       IN  tasks' = [tasks EXCEPT ![t] =
                [@ EXCEPT !.pc = "done", !.status = "ok", !.trips = @ + 1,
                          !.response = PaginationPost(rows, page, posts_per_page,
                                                      tasks[t].num_pages)]]
    /\ UNCHANGED <<posts, next_id>>

(* ----------------------------- POST /api/ ----------------------------- *)

\* api_create_post, the INSERT of ActiveModel::save (id is NotSet).
api_create_post_insert(t) ==
    /\ tasks[t].pc = "idle"
    /\ next_id <= MaxId
    /\ \E body \in Bodies :
        /\ posts' = insert_row(posts, next_id, body)
        /\ tasks' = [Mutation(t) EXCEPT ![t] =
                [Idle EXCEPT !.kind = "create", !.pc = "create_select",
                             !.body = body, !.id = next_id, !.rows = 1,
                             !.trips = 1]]
    /\ next_id' = next_id + 1

\* api_create_post, the SELECT by last_insert_id of ActiveModel::save and the
\* response: .expect("could not insert post") panics when the row is gone.
api_create_post_select(t) ==
    /\ tasks[t].pc = "create_select"
    /\ tasks' = [tasks EXCEPT ![t] =
            IF tasks[t].id \in DOMAIN posts
            THEN [@ EXCEPT !.pc = "done", !.trips = @ + 1, !.status = "ok",
                           !.response = FlashData("Post succcessfully added")]
            ELSE [@ EXCEPT !.pc = "done", !.trips = @ + 1, !.status = "panic"]]
    /\ UNCHANGED <<posts, next_id>>

(* ------------------------ create_post (HTML form) ---------------------- *)

\* create_post, the INSERT of ActiveModel::save with title and text Set and
\* id and new_col NotSet.  app() mounts no route to this handler.
create_post_insert(t) ==
    /\ tasks[t].pc = "idle"
    /\ next_id <= MaxId
    /\ \E form \in Forms :
        /\ posts' = insert_form_row(posts, next_id, form)
        /\ tasks' = [Mutation(t) EXCEPT ![t] =
                [Idle EXCEPT !.kind = "create_form", !.pc = "form_select",
                             !.body = form, !.id = next_id, !.rows = 1,
                             !.trips = 1]]
    /\ next_id' = next_id + 1

\* create_post, the SELECT by last_insert_id of ActiveModel::save and the
\* redirect: .expect("could not insert post") panics when the row is gone.
create_post_select(t) ==
    /\ tasks[t].pc = "form_select"
    /\ tasks' = [tasks EXCEPT ![t] =
            IF tasks[t].id \in DOMAIN posts
            THEN [@ EXCEPT !.pc = "done", !.trips = @ + 1, !.status = "ok",
                           !.response =
                               post_response(FlashData("Post succcessfully added"))]
            ELSE [@ EXCEPT !.pc = "done", !.trips = @ + 1, !.status = "panic"]]
    /\ UNCHANGED <<posts, next_id>>

(* --------------------------- PATCH /api/:id --------------------------- *)

\* api_update_post, the UPDATE of ActiveModel::save (id is Set): no row
\* affected is an error and .expect("could not edit post") panics.
api_update_post_update(t) ==
    /\ tasks[t].pc = "idle"
    /\ \E id \in PathIds, body \in Bodies :
        LET rows == rows_affected(posts, id)
            req  == [Idle EXCEPT !.kind = "update", !.id = id, !.body = body,
                                 !.rows = rows, !.trips = 1]
        IN  /\ posts' = update_row(posts, id, body)
            /\ IF rows = 0
               THEN tasks' = [tasks EXCEPT ![t] =
                        [req EXCEPT !.pc = "done", !.status = "panic"]]
               ELSE tasks' = [Update(t, id) EXCEPT ![t] =
                        [req EXCEPT !.pc = "update_select"]]
    /\ UNCHANGED next_id

\* api_update_post, the SELECT by id of ActiveModel::save and the response.
api_update_post_select(t) ==
    /\ tasks[t].kind = "update"
    /\ tasks[t].pc = "update_select"
    /\ tasks' = [tasks EXCEPT ![t] =
            IF tasks[t].id \in DOMAIN posts
            THEN [@ EXCEPT !.pc = "done", !.trips = @ + 1, !.status = "ok",
                           !.response = FlashData("Post succcessfully updated")]
            ELSE [@ EXCEPT !.pc = "done", !.trips = @ + 1, !.status = "panic"]]
    /\ UNCHANGED <<posts, next_id>>

(* ------------------------ update_post (HTML form) ---------------------- *)

\* update_post, the UPDATE of ActiveModel::save with id, title, text and
\* new_col Set: no row affected is an error and .expect("could not edit
\* post") panics.  app() mounts no route to this handler.
update_post_update(t) ==
    /\ tasks[t].pc = "idle"
    /\ \E id \in PathIds, form \in Bodies :
        LET rows == rows_affected(posts, id)
            req  == [Idle EXCEPT !.kind = "update_form", !.id = id,
                                 !.body = form, !.rows = rows, !.trips = 1]
        IN  /\ posts' = update_row(posts, id, form)
            /\ IF rows = 0
               THEN tasks' = [tasks EXCEPT ![t] =
                        [req EXCEPT !.pc = "done", !.status = "panic"]]
               ELSE tasks' = [Update(t, id) EXCEPT ![t] =
                        [req EXCEPT !.pc = "update_select"]]
    /\ UNCHANGED next_id

\* update_post, the SELECT by id of ActiveModel::save and the redirect.
update_post_select(t) ==
    /\ tasks[t].kind = "update_form"
    /\ tasks[t].pc = "update_select"
    /\ tasks' = [tasks EXCEPT ![t] =
            IF tasks[t].id \in DOMAIN posts
            THEN [@ EXCEPT !.pc = "done", !.trips = @ + 1, !.status = "ok",
                           !.response =
                               post_response(FlashData("Post succcessfully updated"))]
            ELSE [@ EXCEPT !.pc = "done", !.trips = @ + 1, !.status = "panic"]]
    /\ UNCHANGED <<posts, next_id>>

(* -------------------------- DELETE /api/:id --------------------------- *)

\* api_delete_post, Posts::find_by_id(id).one(conn): no row is None and
\* .unwrap() panics.
api_delete_post_find(t) ==
    /\ tasks[t].pc = "idle"
    /\ \E id \in PathIds :
        LET req == [Idle EXCEPT !.kind = "delete", !.id = id, !.trips = 1]
        IN  tasks' = [tasks EXCEPT ![t] =
                IF id \in DOMAIN posts
                THEN [req EXCEPT !.pc = "delete_exec"]
                ELSE [req EXCEPT !.pc = "done", !.status = "panic"]]
    /\ UNCHANGED <<posts, next_id>>

\* api_delete_post, post.delete(conn) and the response: the DeleteResult is
\* Ok whatever its rows_affected.
api_delete_post_delete_verify(t) ==
    /\ tasks[t].kind = "delete"
    /\ tasks[t].pc = "delete_exec"
    /\ posts' = delete_row(posts, tasks[t].id)
    /\ tasks' = [Mutation(t) EXCEPT ![t] =
            [tasks[t] EXCEPT !.pc = "done", !.status = "ok", !.trips = @ + 2,
                             !.rows = rows_affected(posts, tasks[t].id),
                             !.response = FlashData("Post succcessfully deleted")]]
    /\ UNCHANGED next_id
api_delete_post_delete(t) ==
    /\ tasks[t].kind = "delete"
    /\ tasks[t].pc = "delete_exec"
    /\ posts' = delete_row(posts, tasks[t].id)
    /\ tasks' = [Mutation(t) EXCEPT ![t] =
            [tasks[t] EXCEPT !.pc = "done", !.status = "ok", !.trips = @ + 1,
                             !.rows = rows_affected(posts, tasks[t].id),
                             !.response = FlashData("Post succcessfully deleted")]]
    /\ UNCHANGED next_id

(* ------------------------ delete_post (HTML form) ---------------------- *)

\* delete_post, Posts::find_by_id(id).one(conn): no row is None and
\* .unwrap() panics.  app() mounts no route to this handler.
delete_post_find(t) ==
    /\ tasks[t].pc = "idle"
    /\ \E id \in PathIds :
        LET req == [Idle EXCEPT !.kind = "delete_form", !.id = id, !.trips = 1]
        IN  tasks' = [tasks EXCEPT ![t] =
                IF id \in DOMAIN posts
                THEN [req EXCEPT !.pc = "delete_exec"]
                ELSE [req EXCEPT !.pc = "done", !.status = "panic"]]
    /\ UNCHANGED <<posts, next_id>>

\* delete_post, post.delete(conn) and the redirect: the DeleteResult is Ok
\* whatever its rows_affected.
delete_post_delete(t) ==
    /\ tasks[t].kind = "delete_form"
    /\ tasks[t].pc = "delete_exec"
    /\ posts' = delete_row(posts, tasks[t].id)
    /\ tasks' = [Mutation(t) EXCEPT ![t] =
            [tasks[t] EXCEPT !.pc = "done", !.status = "ok", !.trips = @ + 1,
                             !.rows = rows_affected(posts, tasks[t].id),
                             !.response =
                                 post_response(FlashData("Post succcessfully deleted"))]]
    /\ UNCHANGED next_id

(* ------------------------------ response ------------------------------ *)

\* The response is sent, or the panic surfaces, and the task ends.
respond(t) ==
    /\ tasks[t].pc = "done"
    /\ tasks' = [tasks EXCEPT ![t] = Idle]
    /\ UNCHANGED <<posts, next_id>>

Next ==
    \E t \in Tasks :
        \/ api_list_posts_num_pages(t)
        \/ api_list_posts_fetch_page(t)
        \/ api_create_post_insert(t)
        \/ api_create_post_select(t)
        \/ create_post_insert(t)
        \/ create_post_select(t)
        \/ api_update_post_update(t)
        \/ api_update_post_select(t)
        \/ update_post_update(t)
        \/ update_post_select(t)
        \/ api_delete_post_find(t)
        \/ api_delete_post_delete(t)
        \/ delete_post_find(t)
        \/ delete_post_delete(t)
        \/ respond(t)

Spec == Init /\ [][Next]_vars

(* ====================== properties of the post API ==================== *)

\* The parameters a list request runs with.
PageOf(t) == IF tasks[t].params.page = None THEN 1 ELSE tasks[t].params.page[1]
PerPageOf(t) ==
    IF tasks[t].params.posts_per_page = None THEN 5
    ELSE tasks[t].params.posts_per_page[1]

\* The rank of a post in ascending id order, from 1.
Rank(store, id) == Cardinality({j \in DOMAIN store : j <= id})

\* Task t handles a list request whose two queries saw the same table.
ListUndisturbed(t) == tasks[t].kind = "list" /\ ~tasks[t].mutated

\* Task t takes the step from position from to position to.
Step(t, from, to) == tasks[t].pc = from /\ tasks'[t].pc = to

\* The requests that update a post and the requests that delete one, by
\* PATCH and DELETE of /api/:id or by the forms of update_post and delete_post.
UpdateKinds == {"update", "update_form"}
DeleteKinds == {"delete", "delete_form"}

\* The answer of a successful create, update or delete: the flash data as the
\* JSON body, and for a form the redirect that carries it.
Answer(task, message) ==
    IF task.kind \in {"create_form", "update_form", "delete_form"}
    THEN post_response(FlashData(message))
    ELSE FlashData(message)

\* Task t has run the UPDATE statement of an update request and it hit a row.
Wrote(t) ==
    /\ tasks[t].kind \in UpdateKinds
    /\ tasks[t].pc \in {"update_select", "done"}
    /\ tasks[t].rows = 1

(* ---------------------------------- C1 -------------------------------- *)

\* C1: a list request whose two queries both see an empty posts table
\* succeeds with num_pages = 0 and no posts, and its response carries the page
\* and posts_per_page it ran with, 1 and 5 where the request left them out.
C1_EmptyStoreList ==
    \A t \in Tasks :
        (ListUndisturbed(t) /\ tasks[t].pc = "done" /\ tasks[t].num_items = 0)
        => /\ tasks[t].status = "ok"
           /\ tasks[t].response.num_pages = 0
           /\ tasks[t].response.posts = << >>
           /\ tasks[t].response.page = PageOf(t)
           /\ tasks[t].response.posts_per_page = PerPageOf(t)

\* A finished list of page 2 with the default page size over the empty table.
C1_Witness ==
    \E t \in Tasks :
        /\ ListUndisturbed(t) /\ tasks[t].pc = "done" /\ tasks[t].num_items = 0
        /\ posts = << >>
        /\ tasks[t].params = [page |-> Some(2), posts_per_page |-> None]
        /\ tasks[t].response.posts_per_page = 5

(* ---------------------------------- C2 -------------------------------- *)

\* C2: whatever creates, updates and deletes left N posts in the table, a list
\* request with page size P that counted them reports num_pages = ceil(N / P),
\* the least k with k * P >= N.
C2_NumPagesIsCeiling ==
    \A t \in Tasks :
        /\ (ListUndisturbed(t) /\ tasks[t].pc = "fetch_page")
           => LET N == Cardinality(DOMAIN posts)
                  k == tasks[t].num_pages
              IN  /\ k >= 0
                  /\ k * PerPageOf(t) >= N
                  /\ (k - 1) * PerPageOf(t) < N
        /\ (tasks[t].kind = "list" /\ tasks[t].pc = "done")
           => LET k == tasks[t].response.num_pages
              IN  /\ k >= 0
                  /\ k * PerPageOf(t) >= tasks[t].num_items
                  /\ (k - 1) * PerPageOf(t) < tasks[t].num_items

\* One post is left of the posts created, and a list with the default page
\* size of 5 has counted one page.
C2_Witness ==
    \E t \in Tasks :
        /\ ListUndisturbed(t) /\ tasks[t].pc = "fetch_page"
        /\ next_id > MaxId
        /\ Cardinality(DOMAIN posts) = 1
        /\ PerPageOf(t) = 5
        /\ tasks[t].num_pages = 1

(* ---------------------------------- C3 -------------------------------- *)

\* The posts a list request returns, as the claim describes them.
C3_PageContents(t, rows) ==
    LET p == PageOf(t)
        P == PerPageOf(t)
    IN  \* exactly the posts ranked (p-1)*P+1 .. p*P
        /\ \A id \in DOMAIN posts :
              (Rank(posts, id) \in ((p - 1) * P + 1)..(p * P))
              <=> (\E i \in DOMAIN rows : rows[i].id = id)
        \* in ascending id order, each once, with the fields of the table
        /\ \A i \in DOMAIN rows :
              /\ rows[i].id \in DOMAIN posts
              /\ Rank(posts, rows[i].id) = (p - 1) * P + i
              /\ rows[i].title = posts[rows[i].id].title
              /\ rows[i].text = posts[rows[i].id].text
              /\ rows[i].new_col = posts[rows[i].id].new_col
        \* a page beyond the last is empty
        /\ p > tasks[t].num_pages => rows = << >>
        \* the pages 1..num_pages hold every post exactly once
        /\ \A id \in DOMAIN posts :
              Cardinality({q \in 1..tasks[t].num_pages :
                  \E i \in DOMAIN fetch_page(posts, q - 1, P) :
                      fetch_page(posts, q - 1, P)[i].id = id}) = 1

\* C3: when no statement changed the table between the count and the page
\* query of a list request for page p >= 1 with page size P >= 1, the request
\* succeeds and returns exactly the posts ranked (p-1)*P+1 .. p*P in ascending
\* id order; the pages 1..num_pages hold every post exactly once, and a page
\* beyond num_pages is empty and no error.
C3_PageWindow ==
    [][\A t \in Tasks :
          (Step(t, "fetch_page", "done") /\ ListUndisturbed(t))
          => /\ tasks'[t].status = "ok"
             /\ tasks'[t].response.num_pages = tasks[t].num_pages
             /\ C3_PageContents(t, tasks'[t].response.posts)]_vars

\* A finished list of page 2 with page size 1 over two posts: it holds the
\* second post alone.
C3_Witness ==
    \E t \in Tasks :
        /\ ListUndisturbed(t) /\ tasks[t].pc = "done"
        /\ Cardinality(DOMAIN posts) = 2
        /\ tasks[t].num_items = 2
        /\ PageOf(t) = 2 /\ PerPageOf(t) = 1
        /\ Len(tasks[t].response.posts) = 1
        /\ \A id \in DOMAIN posts : id <= tasks[t].response.posts[1].id

(* ---------------------------------- C4 -------------------------------- *)

\* Task c has inserted a post that is still in the table as it inserted it.
Created(c) ==
    /\ tasks[c].kind \in {"create", "create_form"}
    /\ tasks[c].id \in DOMAIN posts
    /\ ~tasks[c].overwritten

\* The extra attribute of the post a create request inserts: the new_col of
\* the JSON body, and for the form of create_post the column default.
InsertedNewCol(task) ==
    IF task.kind = "create_form" THEN 100 ELSE task.body.new_col

\* C4: a create request adds exactly one post, with the title and text of its
\* body and with the new_col of its body (JSON) or the column default 100
\* (form), and a following list of page 1 whose page size holds the whole
\* table returns every post of the table, the created one among them with
\* those three fields.
C4_CreateThenList ==
    [][/\ \A c \in Tasks :
            (Step(c, "idle", "create_select") \/ Step(c, "idle", "form_select"))
            => LET id == tasks'[c].id
               IN  /\ id \notin DOMAIN posts
                   /\ DOMAIN posts' = DOMAIN posts \cup {id}
                   /\ \A j \in DOMAIN posts : posts'[j] = posts[j]
                   /\ posts'[id].title = tasks'[c].body.title
                   /\ posts'[id].text = tasks'[c].body.text
                   /\ posts'[id].new_col = InsertedNewCol(tasks'[c])
       /\ \A l \in Tasks :
            (/\ Step(l, "fetch_page", "done")
             /\ PageOf(l) = 1
             /\ Cardinality(DOMAIN posts) <= PerPageOf(l))
            => /\ Len(tasks'[l].response.posts) = Cardinality(DOMAIN posts)
               /\ \A c \in Tasks :
                    Created(c)
                    => \E i \in DOMAIN tasks'[l].response.posts :
                          tasks'[l].response.posts[i] =
                              [id |-> tasks[c].id,
                               title |-> tasks[c].body.title,
                               text |-> tasks[c].body.text,
                               new_col |-> InsertedNewCol(tasks[c])]]_vars

\* A create of the test's record has run, and a list of page 1 that ran after
\* it has returned the record.
C4_Witness ==
    \E c, l \in Tasks :
        /\ Created(c) /\ tasks[c].kind = "create"
        /\ tasks[c].body = [title |-> "title11", text |-> "text11", new_col |-> 17]
        /\ tasks[l].kind = "list" /\ tasks[l].pc = "done"
        /\ PageOf(l) = 1
        /\ Len(tasks[l].response.posts) = 1
        /\ tasks[l].response.posts[1] =
              [id |-> tasks[c].id, title |-> "title11", text |-> "text11",
               new_col |-> 17]

(* ---------------------------------- C5 -------------------------------- *)

\* C5: an update request for an id that is not in the table panics, returns
\* no response, creates no post with that id and leaves the table as it was.
C5_UpdateMissingId ==
    [][\A t \in Tasks :
          (/\ tasks[t].pc = "idle"
           /\ tasks'[t].kind \in UpdateKinds
           /\ tasks'[t].id \notin DOMAIN posts)
          => /\ tasks'[t].pc = "done"
             /\ tasks'[t].status = "panic"
             /\ tasks'[t].response = NoResponse
             /\ tasks'[t].id \notin DOMAIN posts'
             /\ posts' = posts]_vars

\* An update of an id that is not in the table has failed and a post is in
\* the table.
C5_Witness ==
    \E t \in Tasks :
        /\ tasks[t].kind = "update" /\ tasks[t].pc = "done"
        /\ tasks[t].status = "panic"
        /\ tasks[t].id \notin DOMAIN posts
        /\ DOMAIN posts # {}

(* ---------------------------------- C6 -------------------------------- *)

\* C6: a delete request for an id that is not in the table panics, returns no
\* response and leaves the table as it was; the DELETE statement of a delete
\* request removes the post of its id, no other post, and changes no post.
C6_Delete ==
    [][\A t \in Tasks :
          /\ (/\ tasks[t].pc = "idle"
              /\ tasks'[t].kind \in DeleteKinds
              /\ tasks'[t].id \notin DOMAIN posts)
             => /\ tasks'[t].pc = "done"
                /\ tasks'[t].status = "panic"
                /\ tasks'[t].response = NoResponse
                /\ posts' = posts
          /\ (tasks[t].pc = "idle" /\ tasks'[t].kind \in DeleteKinds)
             => posts' = posts
          /\ Step(t, "delete_exec", "done")
             => /\ DOMAIN posts' = DOMAIN posts \ {tasks[t].id}
                /\ \A j \in DOMAIN posts' : posts'[j] = posts[j]
                /\ tasks[t].id \in DOMAIN posts
                   => /\ tasks'[t].status = "ok"
                      /\ tasks'[t].response =
                            Answer(tasks[t], "Post succcessfully deleted")]_vars

\* A delete has removed its post and reported success, and another post is
\* left in the table.
C6_Witness ==
    \E t \in Tasks :
        /\ tasks[t].kind = "delete" /\ tasks[t].pc = "done"
        /\ tasks[t].status = "ok" /\ tasks[t].rows = 1
        /\ tasks[t].id \notin DOMAIN posts
        /\ \E j \in DOMAIN posts : j > tasks[t].id

(* ---------------------------------- C7 -------------------------------- *)

\* C7: a request to an /api/ route that carries no Authorization header is
\* rejected with InvalidToken before its handler reaches the posts table: it
\* makes no store round trip and gets no handler response.
C7_NoHeaderRejected ==
    \A t \in Tasks :
        Authorization(t) = "absent"
        => /\ tasks[t].trips = 0
           /\ tasks[t].status \in {"none", "InvalidToken"}
           /\ tasks[t].response = NoResponse

(* ---------------------------------- C8 -------------------------------- *)

\* C8: the UPDATE statement of an update request for an id in the table sets
\* the post's title, text and new_col to the body's in that one step, and
\* leaves the ids of the table and every other post as they were; no step
\* changes a post to anything but the whole body of an update request.
C8_UpdateWholeRow ==
    [][/\ \A t \in Tasks :
            (/\ tasks[t].pc = "idle"
             /\ tasks'[t].kind \in UpdateKinds
             /\ tasks'[t].id \in DOMAIN posts)
            => LET id == tasks'[t].id
               IN  /\ DOMAIN posts' = DOMAIN posts
                   /\ posts'[id].title = tasks'[t].body.title
                   /\ posts'[id].text = tasks'[t].body.text
                   /\ posts'[id].new_col = tasks'[t].body.new_col
                   /\ \A j \in DOMAIN posts \ {id} : posts'[j] = posts[j]
       /\ \A id \in DOMAIN posts \cap DOMAIN posts' :
            posts'[id] # posts[id]
            => \E t \in Tasks :
                  /\ tasks[t].pc = "idle"
                  /\ tasks'[t].kind \in UpdateKinds
                  /\ tasks'[t].id = id
                  /\ posts'[id] = tasks'[t].body]_vars

\* An update has rewritten one of two posts: the post has the three fields of
\* the body and the other post differs from it in every field.
C8_Witness ==
    \E t \in Tasks :
        /\ Wrote(t) /\ tasks[t].pc = "update_select"
        /\ tasks[t].id \in DOMAIN posts
        /\ posts[tasks[t].id] = tasks[t].body
        /\ \E j \in DOMAIN posts :
              /\ posts[j].title # tasks[t].body.title
              /\ posts[j].text # tasks[t].body.text
              /\ posts[j].new_col # tasks[t].body.new_col

(* ---------------------------------- C9 -------------------------------- *)

\* C9: of two update requests for the same id whose UPDATE statements both hit
\* the post, and with the post still in the table, one had its statement
\* overwritten by the other; the post has the whole body of the one that was
\* not overwritten, and each of the two that has finished reported success.
C9_LastWriterWins ==
    \A t1, t2 \in Tasks :
        (/\ t1 # t2
         /\ Wrote(t1) /\ Wrote(t2)
         /\ tasks[t1].id = tasks[t2].id
         /\ tasks[t1].id \in DOMAIN posts)
        => /\ tasks[t1].overwritten \/ tasks[t2].overwritten
           /\ \A w \in {t1, t2} :
                /\ ~tasks[w].overwritten
                   => /\ posts[tasks[w].id].title = tasks[w].body.title
                      /\ posts[tasks[w].id].text = tasks[w].body.text
                      /\ posts[tasks[w].id].new_col = tasks[w].body.new_col
                /\ tasks[w].pc = "done"
                   => /\ tasks[w].status = "ok"
                      /\ tasks[w].response =
                            Answer(tasks[w], "Post succcessfully updated")

\* Two updates of one post with different bodies, the second written while the
\* first was between its UPDATE and its SELECT: both have finished with
\* success and the post has the body of the second.
C9_Witness ==
    \E t1, t2 \in Tasks :
        /\ t1 # t2
        /\ Wrote(t1) /\ Wrote(t2)
        /\ tasks[t1].id = tasks[t2].id
        /\ tasks[t1].id \in DOMAIN posts
        /\ tasks[t1].body # tasks[t2].body
        /\ tasks[t1].overwritten /\ tasks[t1].mutated
        /\ tasks[t1].pc = "done" /\ tasks[t1].status = "ok"
        /\ tasks[t2].pc = "done" /\ tasks[t2].status = "ok"
        /\ posts[tasks[t1].id] = tasks[t2].body

(* --------------------------------- C10 -------------------------------- *)

\* C10: every request makes at most one round trip to the store.
C10_OneRoundTrip == \A t \in Tasks : tasks[t].trips <= 1

\* C10, amended: every request makes at most two round trips to the store, one
\* before and one after the position between its two statements, where the
\* statements of other requests run.
C10_TwoRoundTrips ==
    \A t \in Tasks :
        /\ tasks[t].trips <= 2
        /\ tasks[t].pc \in {"fetch_page", "create_select", "form_select",
                            "update_select", "delete_exec"}
           => tasks[t].trips = 1

\* A list request has made its two round trips and a statement of another
\* request changed the table between them.
C10_Witness ==
    \E t \in Tasks :
        /\ tasks[t].kind = "list" /\ tasks[t].pc = "done"
        /\ tasks[t].trips = 2
        /\ tasks[t].mutated

(* --------------------------------- C11 -------------------------------- *)

\* C11: of the delete requests for one id that run concurrently, one reports
\* success and the others fail as deletes of an id that is not in the table:
\* a delete request reports success only if its own DELETE statement removed
\* the post, and no two delete requests for one id both report success.
C11_OneDeleteSucceeds ==
    /\ \A t \in Tasks :
          (tasks[t].kind \in DeleteKinds /\ tasks[t].status = "ok")
          => tasks[t].rows = 1
    /\ \A t1, t2 \in Tasks :
          (/\ t1 # t2
           /\ tasks[t1].kind \in DeleteKinds /\ tasks[t2].kind \in DeleteKinds
           /\ tasks[t1].id = tasks[t2].id)
          => ~(tasks[t1].status = "ok" /\ tasks[t2].status = "ok")

====
